---- MODULE Spec2Model ----
(***************************************************************************)
(* A model of the websocket-tunnel relay (src/src/commands/server.ts) and  *)
(* of its client (src/src/commands/client.ts).                             *)
(*                                                                         *)
(* Five specifications share the module:                                   *)
(*   Spec       the relay: sessions, the registry `sockets`, the dials and *)
(*              target sockets, driven by arbitrary client frames;         *)
(*   AclSpec    the ACL check of the START branch applied to every small   *)
(*              `allowed` mapping and requested (host, port);              *)
(*   ClientSpec the client: local listener, lock, tunnel WebSocket, driven *)
(*              by local sockets and by a relay that follows the protocol. *)
(*   TwoSpec    the relay with two sessions, one of which owns an          *)
(*              established logical connection from the start;             *)
(*   TeardownSpec  the relay with one session whose logical connections    *)
(*              are all established, followed through its teardown.        *)
(***************************************************************************)
EXTENDS Integers, Sequences, FiniteSets, TLC

VARIABLES
    \* ---- relay (server.ts) ----
    credentials,   \* the table built at start-up (server.ts:86-125)
    sockets,       \* the registry: session -> mapping (server.ts:127-129)
    passphrase,    \* conn.passphrase of every session (server.ts:170)
    ws,            \* state of every session's WebSocket connection
    conns,         \* every SocketConnection ever constructed, by id
    nextId,        \* number of ids drawn from UUIDv4 so far (server.ts:183)
    sent,          \* per id, the bodies carrying connection: id that were
                   \* handed to sendJSON, in order, with the session they
                   \* were sent on
    written,       \* per id, the payloads handed to socket.write, in order
    td,            \* per session, the position of the close handler's loop
    crashed,       \* the process died of an uncaught exception
    faults,        \* number of handler runs that ended in a rejected promise
    nmsgs,         \* frames and target chunks received so far; a payload
                   \* is named by the number of its arrival
    last,          \* the handler that ran last: what it saw, and every body
                   \* it handed to sendJSON (`out`)
    \* ---- ACL check on its own ----
    aclAllowed, aclHost, aclPort, aclDone, aclGranted,
    \* ---- client (client.ts) ----
    connectionId,  \* client.ts:69
    wsConnection,  \* client.ts:71, 0 when undefined, else the connection
    isConnected,   \* client.ts:72
    buffers,       \* client.ts:74
    client,        \* client.ts:214, 0 when undefined, else the local socket
    lockHolder,    \* the task that holds the Mutex of client.ts:76
    lockQueue,     \* the tasks waiting in lock.acquire(), in order
    exited,        \* panic() ended the process (utils.ts:79-94)
    listening,     \* localServer accepts connections
    tunnel,        \* every WebSocket connection the client opened, with the
                   \* relay's side of it
    locals,        \* every local socket accepted by localServer
    traffic,       \* the TRAFFIC bodies handed to sendJSON, in order
    nws,           \* WebSocket connections opened so far
    nlocals,       \* local sockets accepted so far
    narrivals,     \* chunks received so far, from local sockets and the relay
    opensSinceClose \* connections opened since the last 'close' event

srvVars == <<credentials, sockets, passphrase, ws, conns, nextId, sent, written,
             td, crashed, faults, nmsgs, last>>
aclVars == <<aclAllowed, aclHost, aclPort, aclDone, aclGranted>>
cliVars == <<connectionId, wsConnection, isConnected, buffers, client, lockHolder,
             lockQueue, exited, listening, tunnel, locals, traffic, nws, nlocals,
             narrivals, opensSinceClose>>
vars == <<srvVars, aclVars, cliVars>>

(***************************************************************************)
(* Bounds of the model.                                                    *)
(***************************************************************************)
MaxIds  == 4    \* ids drawn per run
MaxInputs == 3  \* frames received from clients and chunks received from
                \* targets per run

MaxWs     == 2  \* WebSocket connections the client opens per run
MaxLocals == 2  \* local sockets accepted per run
MaxChunks == 2  \* chunks received per run, from local sockets and the relay

Sessions == {"s1", "s2"}
IdNames  == <<"c1", "c2", "c3", "c4", "c5">>
Ids      == {IdNames[i] : i \in 1..MaxIds}

\* A property name every plain JavaScript object inherits from
\* Object.prototype: obj["constructor"] is defined for every {}.
ProtoKeys == {"constructor"}

None == "-"     \* a field that is absent (undefined)

\* Payloads: the n-th frame or chunk received carries Chunk(n); Ord gives
\* the number back.
ChunkNames == <<"d1", "d2", "d3", "d4", "d5", "d6", "d7", "d8">>
Chunk(n)   == ChunkNames[n]
Ord(d)     == CHOOSE n \in 1..Len(ChunkNames) : ChunkNames[n] = d

PassInputs == {None, "abc", "xyz", "bad", "constructor"}
\* Targets a START may name: granted by the exact host, refused, and
\* granted by the wildcard host of Table1 below.
Targets    == {<<"a", 80>>, <<"b", 80>>, <<"b", 443>>}
\* Ids a TRAFFIC frame may name: none, an inherited property name, an id
\* the relay never drew, and the ids it has drawn.
IdInputs   == {None, "constructor", "zz"} \cup {IdNames[k] : k \in 1..nextId}

(***************************************************************************)
(* Credential table (server.ts:86-125).  A credential is                   *)
(* [restricted, allowed]: `allowed` maps host keys to port sets, port 0    *)
(* standing for "*" (server.ts:112-113).                                   *)
(***************************************************************************)
NoAllowed == [h \in {} |-> {}]

Cred(restricted, allowed) == [restricted |-> restricted, allowed |-> allowed]

NoTable == [configured |-> FALSE, table |-> [p \in {} |-> Cred(FALSE, NoAllowed)]]

Table1 ==
    [configured |-> TRUE,
     table |-> [p \in {"abc", "xyz"} |->
                  IF p = "abc"
                  THEN Cred(TRUE, [h \in {"a", "*"} |-> IF h = "a" THEN {80} ELSE {443}])
                  ELSE Cred(FALSE, NoAllowed)]]

Tables == {NoTable, Table1}


(***************************************************************************)
(* Helpers.                                                                *)
(***************************************************************************)
Range(q) == {q[i] : i \in 1..Len(q)}

Without(q, x) == SelectSeq(q, LAMBDA y : y # x)

\* A body handed to sendJSON (utils.ts:66-71); an absent field is None.
Msg(command, status, error, connection, data) ==
    [command |-> command, status |-> status, error |-> error,
     connection |-> connection, data |-> data]

\* A SocketConnection object together with its net.Socket (server.ts:24-56).
\*   state   "unused" | "dialing" | "refused" | "open" | "ending" | "ended"
\*           | "closed"
\*   socket  the field this.socket is set
\*   promise "none" | "pending" | "resolved" | "rejected": the promise of start()
\*   wired   the 'data' and 'close' listeners of server.ts:241-256 are attached
\*   acks    write callbacks not yet invoked
Blank ==
    [state |-> "unused", sess |-> None, host |-> None, port |-> 0,
     socket |-> FALSE, promise |-> "none", wired |-> FALSE, acks |-> 0]

NoLast ==
    [op |-> "init", sess |-> None, pass |-> None, host |-> None, port |-> 0,
     id |-> None, out |-> <<>>, authed |-> FALSE, fault |-> FALSE]

Event(op, s, pass, host, port, id, out, authed, fault) ==
    [op |-> op, sess |-> s, pass |-> pass, host |-> host, port |-> port,
     id |-> id, out |-> out, authed |-> authed, fault |-> fault]

(***************************************************************************)
(* Property reads on plain objects: credentials[passphrase]                *)
(* (server.ts:137, 191) and sockets[conn.id][body.id] (server.ts:279, 288) *)
(* find own keys and the members inherited from Object.prototype.          *)
(***************************************************************************)
HasProperty(ownKeys, key) == key \in ownKeys \/ key \in ProtoKeys

\* credentials[p]: the configured credential, or an inherited member, which
\* has no `allowed` property.
CredOf(p) ==
    IF p \in DOMAIN credentials.table
    THEN credentials.table[p]
    ELSE Cred(FALSE, NoAllowed)

\* server.ts:133-138.
isAuthenticated(p) ==
    IF ~credentials.configured THEN TRUE
    ELSE IF p = None THEN FALSE
    ELSE HasProperty(DOMAIN credentials.table, p)

(***************************************************************************)
(* The ACL check of the START branch (server.ts:195-215): TRUE when the    *)
(* request passes both tests, FALSE when one of them replies FORBIDDEN.    *)
(***************************************************************************)
AclGrants(allowed, host, port) ==
    IF ~(host \in DOMAIN allowed \/ "*" \in DOMAIN allowed)
    THEN FALSE
    ELSE LET allowedPorts ==
                 IF host \in DOMAIN allowed THEN allowed[host] ELSE allowed["*"]
         IN  ~(port \notin allowedPorts /\ 0 \notin allowedPorts)

\* StartVerdict without the test of line 177.
StartVerdictNoSessionTest(s, host, port) ==
    IF ~credentials.configured THEN "DIAL"
    ELSE IF passphrase[s] = None THEN "NOPASS"
    ELSE IF CredOf(passphrase[s]).restricted
            /\ ~AclGrants(CredOf(passphrase[s]).allowed, host, port)
         THEN "FORBIDDEN"
    ELSE "DIAL"

\* The path a START takes through server.ts:177-216.
StartVerdict(s, host, port) ==
    IF ~sockets[s].defined THEN "NOSESSION"
    ELSE IF ~credentials.configured THEN "DIAL"
    ELSE IF passphrase[s] = None THEN "NOPASS"
    ELSE IF CredOf(passphrase[s]).restricted
            /\ ~AclGrants(CredOf(passphrase[s]).allowed, host, port)
         THEN "FORBIDDEN"
    ELSE "DIAL"

(***************************************************************************)
(* Initial state: the table is loaded, the WebSocket connections are       *)
(* accepted (server.ts:154-156), nothing has been received.                *)
(***************************************************************************)
AclIdle ==
    /\ aclAllowed = NoAllowed
    /\ aclHost = "a"
    /\ aclPort = 80
    /\ aclDone = FALSE
    /\ aclGranted = FALSE

(***************************************************************************)
(* The client when run() waits for its first connection (client.ts:59-217):*)
(* the listener listens, run() holds the lock and waits in                 *)
(* startConnection for ESTABLISHED on connection 1.                        *)
(***************************************************************************)
WsIds    == 1..MaxWs
LocalIds == 1..MaxLocals

\* A task that went through lock.acquire(): run() itself (from = 0) or the
\* 'data' listener of local socket `from` with its chunk; waitOn is the
\* connection whose ESTABLISHED its startConnection waits for, 0 for none.
Task(from, data, waitOn) == [from |-> from, data |-> data, waitOn |-> waitOn]

NoTask == Task(-1, 0, 0)

\* A WebSocket connection of the client.
\*   state    "unused" | "connecting" | "open" | "closing" | "closed"
\*   relay    what the relay has done on it: "idle" | "gotConnect" | "authed"
\*            | "gotStart" | "dialing" | "established" | "over"
\*   pend     replies to TRAFFIC the relay has still to send
\*   connects, starts   CONNECT and START bodies sent on it
\*   log      the types of the bodies the client handed to sendJSON for it,
\*            in order
\*   wrote    the payloads the relay handed to the target socket, in order
\*   gave     the payloads of the target the relay sent on it, in order
\*   heard    the bodies the listener of client.ts:93-165 was called with,
\*            in order
NoTunnel ==
    [state |-> "unused", relay |-> "idle", pend |-> <<>>, connects |-> 0,
     starts |-> 0, log |-> <<>>, wrote |-> <<>>, gave |-> <<>>, heard |-> <<>>]

\* A local socket: "none" | "open" | "ended" (socket.end() was called on
\* it) | "closed"; `got` are the buffers written to it, the first
\* `flushed` of them by the loop of client.ts:202-206.
NoLocal ==
    [state |-> "none", rejected |-> FALSE, attachedThen |-> 0, got |-> <<>>,
     flushed |-> 0]

CliInit ==
    /\ connectionId = ""
    /\ wsConnection = 0
    /\ isConnected = FALSE
    /\ buffers = <<>>
    /\ client = 0
    /\ lockHolder = Task(0, 0, 1)
    /\ lockQueue = <<>>
    /\ exited = FALSE
    /\ listening = TRUE
    /\ tunnel = [w \in WsIds |-> IF w = 1 THEN [NoTunnel EXCEPT !.state = "connecting"]
                                 ELSE NoTunnel]
    /\ locals = [j \in LocalIds |-> NoLocal]
    /\ traffic = <<>>
    /\ nws = 1
    /\ nlocals = 0
    /\ narrivals = 0
    /\ opensSinceClose = 1

\* The relay once the connections in `accepted` have been accepted.
SrvInit(accepted) ==
    /\ credentials \in Tables
    /\ sockets = [s \in Sessions |-> [defined |-> FALSE, keys |-> <<>>]]
    /\ passphrase = [s \in Sessions |-> None]
    /\ ws = [s \in Sessions |-> IF s \in accepted THEN "open" ELSE "none"]
    /\ conns = [i \in Ids |-> Blank]
    /\ nextId = 0
    /\ sent = [i \in Ids |-> <<>>]
    /\ written = [i \in Ids |-> <<>>]
    /\ td = [s \in Sessions |-> [state |-> "idle", cur |-> None, rest |-> <<>>]]
    /\ crashed = FALSE
    /\ faults = 0
    /\ nmsgs = 0
    /\ last = NoLast

\* One client is connected.
Init == SrvInit({"s1"}) /\ AclIdle /\ CliInit

\* Two clients are connected, no table is configured, both sent CONNECT
\* and the first had its START dialed and connected: c1 is registered in
\* the mapping of s1.
TwoInit ==
    /\ credentials = NoTable
    /\ sockets = [s \in Sessions |->
                    [defined |-> TRUE,
                     keys |-> IF s = "s1" THEN <<IdNames[1]>> ELSE <<>>]]
    /\ passphrase = [s \in Sessions |-> None]
    /\ ws = [s \in Sessions |-> "open"]
    /\ conns = [i \in Ids |->
                  IF i = IdNames[1]
                  THEN [Blank EXCEPT !.state = "open", !.sess = "s1", !.host = "a",
                                     !.port = 80, !.socket = TRUE,
                                     !.promise = "resolved", !.wired = TRUE]
                  ELSE Blank]
    /\ nextId = 1
    /\ sent = [i \in Ids |->
                 IF i = IdNames[1]
                 THEN <<[to |-> "s1",
                         msg |-> Msg("START", "CONNECTING", None, i, None)],
                        [to |-> "s1",
                         msg |-> Msg(None, "ESTABLISHED", None, i, None)]>>
                 ELSE <<>>]
    /\ written = [i \in Ids |-> <<>>]
    /\ td = [s \in Sessions |-> [state |-> "idle", cur |-> None, rest |-> <<>>]]
    /\ crashed = FALSE
    /\ faults = 0
    /\ nmsgs = 0
    /\ last = NoLast
    /\ AclIdle
    /\ CliInit

\* A frame can be handled: the process runs and the connection is open.
CanReceive(s) == ~crashed /\ ws[s] = "open" /\ nmsgs < MaxInputs

\* sendJSON(conn, log, body) for every body of `out`, conn the connection
\* of session s (utils.ts:66-71).
Reply(s, out) ==
    sent' = [i \in Ids |->
               sent[i] \o [k \in 1..Len(SelectSeq(out, LAMBDA m : m.connection = i)) |->
                             [to |-> s,
                              msg |-> SelectSeq(out, LAMBDA m : m.connection = i)[k]]]]

(***************************************************************************)
(* CONNECT (server.ts:164-175).                                            *)
(***************************************************************************)
RecvConnect(s, p) ==
    /\ CanReceive(s)
    /\ nmsgs' = nmsgs + 1
    /\ IF ~isAuthenticated(p)
       THEN /\ Reply(s, <<Msg("CONNECT", None, "AUTHFAIL", None, None)>>)
            /\ last' = Event("CONNECT", s, p, None, 0, None,
                             <<Msg("CONNECT", None, "AUTHFAIL", None, None)>>,
                             sockets[s].defined, FALSE)
            /\ UNCHANGED <<sockets, passphrase>>
       ELSE /\ passphrase' = IF p # None THEN [passphrase EXCEPT ![s] = p]
                             ELSE passphrase
            /\ sockets' = [sockets EXCEPT ![s] = [defined |-> TRUE, keys |-> <<>>]]
            /\ Reply(s, <<Msg("CONNECT", None, None, None, None)>>)
            /\ last' = Event("CONNECT", s, p, None, 0, None,
                             <<Msg("CONNECT", None, None, None, None)>>,
                             sockets[s].defined, FALSE)
    /\ UNCHANGED <<credentials, ws, conns, nextId, written, td, crashed, faults, aclVars, cliVars>>

(***************************************************************************)
(* START (server.ts:176-267, up to the call of start()).  The id is drawn  *)
(* at line 183, before the ACL check.                                      *)
(***************************************************************************)
RecvStart(s, host, port) ==
    /\ CanReceive(s)
    /\ nmsgs' = nmsgs + 1
    /\ LET verdict == StartVerdict(s, host, port)
           id == IdNames[nextId + 1]
       IN  IF verdict = "NOSESSION"
           THEN /\ Reply(s, <<Msg("START", None, "AUTHFAIL", None, None)>>)
                /\ last' = Event("START", s, passphrase[s], host, port, None,
                                 <<Msg("START", None, "AUTHFAIL", None, None)>>,
                                 sockets[s].defined, FALSE)
                /\ UNCHANGED <<conns, nextId>>
           ELSE /\ nextId < MaxIds
                /\ nextId' = nextId + 1
                /\ IF verdict = "DIAL"
                   THEN /\ Reply(s, <<Msg("START", "CONNECTING", None, id, None)>>)
                        /\ conns' = [conns EXCEPT ![id] =
                                       [Blank EXCEPT !.state = "dialing", !.sess = s,
                                                     !.host = host, !.port = port,
                                                     !.promise = "pending"]]
                        /\ last' = Event("START", s, passphrase[s], host, port, id,
                                     <<Msg("START", "CONNECTING", None, id, None)>>,
                                     sockets[s].defined, FALSE)
                   ELSE /\ Reply(s, <<Msg("START", None,
                                          IF verdict = "NOPASS" THEN "AUTHFAIL"
                                          ELSE "FORBIDDEN", None, None)>>)
                        /\ conns' = conns
                        /\ last' = Event("START", s, passphrase[s], host, port, None,
                                     <<Msg("START", None,
                                           IF verdict = "NOPASS" THEN "AUTHFAIL"
                                           ELSE "FORBIDDEN", None, None)>>,
                                     sockets[s].defined, FALSE)
    /\ UNCHANGED <<credentials, sockets, passphrase, ws, written, td, crashed,
                   faults, aclVars, cliVars>>

(***************************************************************************)
(* TRAFFIC (server.ts:268-308).  The first test does not return, so an     *)
(* unauthenticated TRAFFIC goes on to the id tests; there                  *)
(* sockets[conn.id][body.id] reads a property of undefined and throws,     *)
(* which rejects the promise of the async listener.                        *)
(***************************************************************************)
TrafficOut(s, id) ==
    (IF ~sockets[s].defined
     THEN <<Msg("TRAFFIC", None, "AUTHFAIL", None, None)>> ELSE <<>>)
    \o (IF id = None
        THEN <<Msg("TRAFFIC", None, "NOID", None, None)>>
        ELSE IF ~sockets[s].defined THEN <<>>
        ELSE IF ~HasProperty(Range(sockets[s].keys), id)
        THEN <<Msg("TRAFFIC", None, "INVALIDID", id, None)>>
        ELSE IF ~(id \in Range(sockets[s].keys) /\ conns[id].socket)
        THEN <<Msg("TRAFFIC", None, "CLOSED", id, None)>>
        ELSE <<>>)

\* The handler throws: the id is present and the session has no mapping.
TrafficThrows(s, id) == id # None /\ ~sockets[s].defined

\* A lookup of the id in the mappings of all sessions.
TrafficWritesAnySession(s, id) ==
    /\ id # None
    /\ sockets[s].defined
    /\ \E t \in Sessions : id \in Range(sockets[t].keys)
    /\ conns[id].socket

\* The handler reaches socket.write (server.ts:298).
TrafficWrites(s, id) ==
    /\ id # None
    /\ sockets[s].defined
    /\ id \in Range(sockets[s].keys)
    /\ conns[id].socket

RecvTraffic(s, id, data) ==
    /\ CanReceive(s)
    /\ nmsgs' = nmsgs + 1
    /\ Reply(s, TrafficOut(s, id))
    /\ faults' = IF TrafficThrows(s, id) THEN faults + 1 ELSE faults
    /\ IF TrafficWrites(s, id)
       THEN /\ written' = [written EXCEPT ![id] = Append(written[id], data)]
            /\ conns' = [conns EXCEPT ![id].acks = conns[id].acks + 1]
       ELSE UNCHANGED <<written, conns>>
    /\ last' = Event("TRAFFIC", s, None, None, 0, id, TrafficOut(s, id),
                     sockets[s].defined, TrafficThrows(s, id))
    /\ UNCHANGED <<credentials, sockets, passphrase, ws, nextId, td, crashed, aclVars, cliVars>>

\* The callback of socket.write (server.ts:298-308): an error when the
\* socket is gone, the acknowledgement otherwise.
WriteCallback(id) ==
    /\ ~crashed
    /\ conns[id].acks > 0
    /\ conns' = [conns EXCEPT ![id].acks = conns[id].acks - 1]
    /\ LET out == IF conns[id].state \in {"open", "ending", "ended"}
                  THEN <<Msg("TRAFFIC", None, None, id, None)>>
                  ELSE <<Msg("TRAFFIC", None, "WRITEERROR", id, None)>>
       IN  /\ Reply(conns[id].sess, out)
           /\ last' = Event("WRITECB", conns[id].sess, None, None, 0, id, out,
                            TRUE, FALSE)
    /\ UNCHANGED <<credentials, sockets, passphrase, ws, nextId, written, td,
                   crashed, faults, nmsgs, aclVars, cliVars>>

\* Any other type (server.ts:309-314).
RecvOther(s) ==
    /\ CanReceive(s)
    /\ nmsgs' = nmsgs + 1
    /\ Reply(s, <<Msg("UNKNOWN", None, "NOTIMPLEMENTED", None, None)>>)
    /\ last' = Event("OTHER", s, None, None, 0, None,
                     <<Msg("UNKNOWN", None, "NOTIMPLEMENTED", None, None)>>,
                     sockets[s].defined, FALSE)
    /\ UNCHANGED <<credentials, sockets, passphrase, ws, conns, nextId, written,
                   td, crashed, faults, aclVars, cliVars>>

\* A binary frame: isUTF8Message is false and the listener returns
\* (server.ts:160, utils.ts:96-97).
RecvBinary(s) ==
    /\ CanReceive(s)
    /\ nmsgs' = nmsgs + 1
    /\ last' = Event("BINARY", s, None, None, 0, None, <<>>, sockets[s].defined,
                     FALSE)
    /\ UNCHANGED <<credentials, sockets, passphrase, ws, conns, nextId, sent,
                   written, td, crashed, faults, aclVars, cliVars>>

\* A text frame that is not JSON: JSON.parse throws (server.ts:161) inside
\* the async listener, whose promise is rejected with nobody to handle it.
RecvBadJson(s) ==
    /\ CanReceive(s)
    /\ nmsgs' = nmsgs + 1
    /\ faults' = faults + 1
    /\ last' = Event("BADJSON", s, None, None, 0, None, <<>>, sockets[s].defined,
                     TRUE)
    /\ UNCHANGED <<credentials, sockets, passphrase, ws, conns, nextId, sent,
                   written, td, crashed, aclVars, cliVars>>

(***************************************************************************)
(* The dial (server.ts:32-44) and what follows it (server.ts:225-267).     *)
(***************************************************************************)
\* 'connect': this.socket is set and the promise resolves; the then-handler
\* sends ESTABLISHED, attaches the listeners and registers the connection.
\* After a 'timeout' the promise is settled already and only line 39 acts.
DialConnect(id) ==
    /\ ~crashed
    /\ conns[id].state = "dialing"
    /\ LET s == conns[id].sess
           first == conns[id].promise = "pending"
           out == IF first THEN <<Msg(None, "ESTABLISHED", None, id, None)>>
                  ELSE <<>>
       IN  /\ conns' = [conns EXCEPT ![id].state = "open", ![id].socket = TRUE,
                          ![id].promise = IF first THEN "resolved" ELSE @,
                          ![id].wired = first]
           /\ sockets' = IF first /\ id \notin Range(sockets[s].keys)
                         THEN [sockets EXCEPT ![s].keys = Append(@, id)]
                         ELSE sockets
           /\ Reply(s, out)
           /\ last' = Event("DIALCONNECT", s, None, None, 0, id, out, TRUE, FALSE)
    /\ UNCHANGED <<credentials, passphrase, ws, nextId, written, td, crashed,
                   faults, nmsgs, aclVars, cliVars>>

\* 'timeout': the promise is rejected with TIMEOUT and the catch-handler
\* sends FAILED.  The socket is not destroyed and keeps dialing.
DialTimeout(id) ==
    /\ ~crashed
    /\ conns[id].state = "dialing"
    /\ conns[id].promise = "pending"
    /\ conns' = [conns EXCEPT ![id].promise = "rejected"]
    /\ Reply(conns[id].sess, <<Msg(None, "FAILED", "TIMEOUT", id, None)>>)
    /\ last' = Event("DIALTIMEOUT", conns[id].sess, None, None, 0, id,
                     <<Msg(None, "FAILED", "TIMEOUT", id, None)>>, TRUE, FALSE)
    /\ UNCHANGED <<credentials, sockets, passphrase, ws, nextId, written, td,
                   crashed, faults, nmsgs, aclVars, cliVars>>

\* 'error' (connection refused, unreachable, reset): the socket has no
\* 'error' listener, so the event is thrown as an uncaught exception and the
\* process ends.  Nothing is sent.
SocketError(id) ==
    /\ ~crashed
    /\ conns[id].state \in {"dialing", "open"}
    /\ crashed' = TRUE
    /\ conns' = [conns EXCEPT ![id].state =
                      IF conns[id].state = "dialing" THEN "refused" ELSE "closed"]
    /\ last' = Event("SOCKETERROR", conns[id].sess, None, None, 0, id, <<>>,
                     TRUE, TRUE)
    /\ UNCHANGED <<credentials, sockets, passphrase, ws, nextId, sent, written,
                   td, faults, nmsgs, aclVars, cliVars>>

\* 'data' of a target socket (server.ts:241-246).
TargetData(id, data) ==
    /\ ~crashed
    /\ conns[id].state \in {"open", "ending", "ended"}
    /\ conns[id].wired
    /\ nmsgs < MaxInputs
    /\ nmsgs' = nmsgs + 1
    /\ Reply(conns[id].sess, <<Msg(None, None, None, id, data)>>)
    /\ last' = Event("TARGETDATA", conns[id].sess, None, None, 0, id,
                     <<Msg(None, None, None, id, data)>>, TRUE, FALSE)
    /\ UNCHANGED <<credentials, sockets, passphrase, ws, conns, nextId, written,
                   td, crashed, faults, aclVars, cliVars>>

\* 'close' of a target socket (server.ts:248-256).
TargetClose(id) ==
    /\ ~crashed
    /\ conns[id].state \in {"open", "ended"}
    /\ LET s == conns[id].sess
           out == IF conns[id].wired
                  THEN <<Msg(None, "CLOSED", None, id, None)>> ELSE <<>>
       IN  /\ conns' = [conns EXCEPT ![id].state = "closed"]
           /\ sockets' = IF conns[id].wired
                         THEN [sockets EXCEPT ![s].keys = Without(@, id)]
                         ELSE sockets
           /\ ws' = IF conns[id].wired /\ ws[s] = "open"
                    THEN [ws EXCEPT ![s] = "closing"] ELSE ws
           /\ Reply(s, out)
           /\ last' = Event("TARGETCLOSE", s, None, None, 0, id, out, TRUE, FALSE)
    /\ UNCHANGED <<credentials, passphrase, nextId, written, td, crashed, faults,
                   nmsgs, aclVars, cliVars>>

(***************************************************************************)
(* The close handler of the WebSocket (server.ts:318-323) and              *)
(* SocketConnection.close (server.ts:46-55).  The loop runs over the keys  *)
(* read when the handler started; each round reads sockets[conn.id][id]    *)
(* again, calls close() on it and waits for the callback of socket.end.    *)
(* close() throws NOCONNECTION when this.socket is unset, and the read     *)
(* throws when the entry was deleted meanwhile: either ends the loop.      *)
(***************************************************************************)
\* The loop from `keys` on: [td, end, fault], `end` the id whose socket.end
\* is called, or None.
LoopFrom(s, keys) ==
    IF keys = <<>>
    THEN [td |-> [state |-> "done", cur |-> None, rest |-> <<>>],
          end |-> None, fault |-> FALSE]
    ELSE IF Head(keys) \notin Range(sockets[s].keys) \/ ~conns[Head(keys)].socket
    THEN [td |-> [state |-> "aborted", cur |-> Head(keys), rest |-> Tail(keys)],
          end |-> None, fault |-> TRUE]
    ELSE [td |-> [state |-> "waiting", cur |-> Head(keys), rest |-> Tail(keys)],
          end |-> Head(keys), fault |-> FALSE]

\* 'close' of the WebSocket connection: the handler starts.
WsClose(s) ==
    /\ ~crashed
    /\ ws[s] \in {"open", "closing"}
    /\ ws' = [ws EXCEPT ![s] = "closed"]
    /\ LET r == LoopFrom(s, IF sockets[s].defined THEN sockets[s].keys ELSE <<>>)
       IN  /\ td' = [td EXCEPT ![s] = r.td]
           /\ conns' = IF r.end # None
                       THEN [conns EXCEPT ![r.end].state = "ending"] ELSE conns
           /\ faults' = IF r.fault THEN faults + 1 ELSE faults
           /\ last' = Event("WSCLOSE", s, None, None, 0, None, <<>>,
                            sockets[s].defined, r.fault)
    /\ UNCHANGED <<credentials, sockets, passphrase, nextId, sent, written,
                   crashed, nmsgs, aclVars, cliVars>>

\* The callback of socket.end (server.ts:50-53): this.socket is unset, the
\* promise of close() resolves and the loop goes on.
EndCallback(id) ==
    /\ ~crashed
    /\ conns[id].state = "ending"
    /\ LET s == conns[id].sess
           r == LoopFrom(s, td[s].rest)
       IN  /\ td[s].state = "waiting" /\ td[s].cur = id
           /\ td' = [td EXCEPT ![s] = r.td]
           /\ conns' = [conns EXCEPT
                          ![id] = [@ EXCEPT !.state = "ended", !.socket = FALSE],
                          ![IF r.end # None THEN r.end ELSE id] =
                              IF r.end # None THEN [@ EXCEPT !.state = "ending"]
                              ELSE @]
           /\ faults' = IF r.fault THEN faults + 1 ELSE faults
           /\ last' = Event("ENDCB", s, None, None, 0, id, <<>>, TRUE, r.fault)
    /\ UNCHANGED <<credentials, sockets, passphrase, ws, nextId, sent, written,
                   crashed, nmsgs, aclVars, cliVars>>

Next ==
    \/ \E s \in Sessions, p \in PassInputs : RecvConnect(s, p)
    \/ \E s \in Sessions, t \in Targets : RecvStart(s, t[1], t[2])
    \/ \E s \in Sessions, i \in IdInputs : RecvTraffic(s, i, Chunk(nmsgs + 1))
    \/ \E s \in Sessions : RecvOther(s)
    \/ \E s \in Sessions : RecvBinary(s)
    \/ \E s \in Sessions : RecvBadJson(s)
    \/ \E i \in Ids : WriteCallback(i)
    \/ \E i \in Ids : DialConnect(i)
    \/ \E i \in Ids : DialTimeout(i)
    \/ \E i \in Ids : SocketError(i)
    \/ \E i \in Ids : TargetData(i, Chunk(nmsgs + 1))
    \/ \E i \in Ids : TargetClose(i)
    \/ \E s \in Sessions : WsClose(s)
    \/ \E i \in Ids : EndCallback(i)

Spec == Init /\ [][Next]_vars

\* The relay with two sessions, while their WebSocket connections last:
\* the frames and events of Next, with one passphrase, one target and the
\* ids the relay has drawn.
TwoNext ==
    \/ \E s \in Sessions : RecvConnect(s, None)
    \/ \E s \in Sessions : RecvStart(s, "a", 80)
    \/ \E s \in Sessions, i \in IdInputs \cap Ids :
          RecvTraffic(s, i, Chunk(nmsgs + 1))
    \/ \E i \in Ids : WriteCallback(i)
    \/ \E i \in Ids : DialConnect(i)
    \/ \E i \in Ids : SocketError(i)
    \/ \E i \in Ids : TargetData(i, Chunk(nmsgs + 1))
    \/ \E i \in Ids : TargetClose(i)

TwoSpec == TwoInit /\ [][TwoNext]_vars

(***************************************************************************)
(* The relay with one session whose STARTs were all dialed and connected:  *)
(* every id is registered in the mapping of s1.  From there the targets    *)
(* send and close, the WebSocket connection closes and the close handler   *)
(* runs.                                                                   *)
(***************************************************************************)
TeardownInit ==
    /\ credentials = NoTable
    /\ sockets = [s \in Sessions |->
                    IF s = "s1"
                    THEN [defined |-> TRUE, keys |-> [k \in 1..MaxIds |-> IdNames[k]]]
                    ELSE [defined |-> FALSE, keys |-> <<>>]]
    /\ passphrase = [s \in Sessions |-> None]
    /\ ws = [s \in Sessions |-> IF s = "s1" THEN "open" ELSE "none"]
    /\ conns = [i \in Ids |->
                  [Blank EXCEPT !.state = "open", !.sess = "s1", !.host = "a",
                                !.port = 80, !.socket = TRUE,
                                !.promise = "resolved", !.wired = TRUE]]
    /\ nextId = MaxIds
    /\ sent = [i \in Ids |->
                 <<[to |-> "s1", msg |-> Msg("START", "CONNECTING", None, i, None)],
                   [to |-> "s1", msg |-> Msg(None, "ESTABLISHED", None, i, None)]>>]
    /\ written = [i \in Ids |-> <<>>]
    /\ td = [s \in Sessions |-> [state |-> "idle", cur |-> None, rest |-> <<>>]]
    /\ crashed = FALSE
    /\ faults = 0
    /\ nmsgs = 0
    /\ last = NoLast
    /\ AclIdle
    /\ CliInit

TeardownNext ==
    \/ \E i \in Ids : TargetData(i, Chunk(nmsgs + 1))
    \/ \E i \in Ids : TargetClose(i)
    \/ \E s \in Sessions : WsClose(s)
    \/ \E i \in Ids : EndCallback(i)

TeardownSpec == TeardownInit /\ [][TeardownNext]_vars

(***************************************************************************)
(* The ACL check on its own: every `allowed` mapping over the host keys    *)
(* "a" and "*" with non-empty port lists over {0, 80, 443}, every request  *)
(* for host "a" or "b" and port 80 or 443.                                 *)
(***************************************************************************)
AclKeys  == {"a", "*"}
AclPorts == {0, 80, 443}
AclMaps  == UNION {[K -> (SUBSET AclPorts) \ {{}}] : K \in SUBSET AclKeys}

\* START with (host, port) on a session whose credential has `allowed`.
AclCheck(host, port) ==
    /\ aclHost' = host
    /\ aclPort' = port
    /\ aclDone' = TRUE
    /\ aclGranted' = AclGrants(aclAllowed, host, port)
    /\ UNCHANGED <<aclAllowed, srvVars, cliVars>>

AclNext == \E h \in {"a", "b"}, p \in {80, 443} : AclCheck(h, p)

AclInit ==
    /\ SrvInit({})
    /\ credentials = NoTable
    /\ aclAllowed \in AclMaps
    /\ aclHost = "a"
    /\ aclPort = 80
    /\ aclDone = FALSE
    /\ aclGranted = FALSE
    /\ CliInit

AclSpec == AclInit /\ [][AclNext]_vars

(***************************************************************************)
(* What the specification says of the ACL and of authentication.           *)
(***************************************************************************)
\* authorize of the specification (section 4.2): some configured host key
\* that is the host or "*" lists the port or the wildcard port.
Authorizes(allowed, host, port) ==
    \E k \in DOMAIN allowed :
        /\ k = host \/ k = "*"
        /\ port \in allowed[k] \/ 0 \in allowed[k]

\* The passphrase p is the passphrase of a configured credential.
Configured(p) == p \in DOMAIN credentials.table

\* The status replies sent for id i.
StatusCount(i, status) ==
    Cardinality({k \in 1..Len(sent[i]) : sent[i][k].msg.status = status})

Dialed == {i \in Ids : conns[i].state # "unused"}

(***************************************************************************)
(* C1.  A dial starts only on a session that completed a CONNECT and, with *)
(* a table configured, only when the credential of the stored passphrase   *)
(* authorizes the target; a START refused by the ACL gets the single reply *)
(* {command: START, error: FORBIDDEN}, draws no id that the client sees    *)
(* and starts no dial.                                                     *)
(***************************************************************************)
C1_StartStep == last.op = "START"

C1_DialStarted == C1_StartStep /\ last.id # None

C1_Refused ==
    /\ C1_StartStep
    /\ last.authed
    /\ credentials.configured
    /\ last.pass # None
    /\ Configured(last.pass)
    /\ credentials.table[last.pass].restricted
    /\ ~Authorizes(credentials.table[last.pass].allowed, last.host, last.port)

C1_DialOnlyWhenAuthorized ==
    /\ C1_DialStarted =>
          /\ last.authed
          /\ credentials.configured =>
                /\ last.pass # None
                /\ Configured(last.pass)
                /\ credentials.table[last.pass].restricted =>
                      Authorizes(credentials.table[last.pass].allowed,
                                 last.host, last.port)
    /\ C1_Refused =>
          /\ last.out = <<Msg("START", None, "FORBIDDEN", None, None)>>
          /\ last.id = None

(***************************************************************************)
(* C2.  The ACL check grants (host, port) exactly when some configured     *)
(* host key equal to the host or to "*" lists the port or port 0; a port   *)
(* listed only under "*" is granted for a host that has its own key.       *)
(***************************************************************************)
C2_AclIffAuthorizes ==
    aclDone => (aclGranted <=> Authorizes(aclAllowed, aclHost, aclPort))

\* What the code does: the exact host key, when present, hides "*".
C2_ShadowedWildcard ==
    /\ aclDone
    /\ aclHost \in DOMAIN aclAllowed
    /\ "*" \in DOMAIN aclAllowed
    /\ ~aclGranted
    /\ Authorizes(aclAllowed, aclHost, aclPort)

(***************************************************************************)
(* C3.  CONNECT is answered {command: CONNECT} without error, and the      *)
(* mapping of the session exists, exactly when no table is configured or   *)
(* the passphrase is that of a configured credential; otherwise the single *)
(* reply is {command: CONNECT, error: AUTHFAIL} and no mapping is created. *)
(***************************************************************************)
C3_ConnectIffCredential ==
    last.op = "CONNECT" =>
        IF ~credentials.configured \/ (last.pass # None /\ Configured(last.pass))
        THEN /\ last.out = <<Msg("CONNECT", None, None, None, None)>>
             /\ sockets[last.sess].defined
        ELSE /\ last.out = <<Msg("CONNECT", None, "AUTHFAIL", None, None)>>
             /\ sockets[last.sess].defined => last.authed

(***************************************************************************)
(* C4.  A START on a session without a successful CONNECT gets exactly one *)
(* reply, with error AUTHFAIL; no id is drawn, no CONNECTING is sent and   *)
(* no dial starts.                                                         *)
(***************************************************************************)
C4_UnauthStartStep == last.op = "START" /\ ~last.authed

C4_StartBeforeConnect ==
    /\ [](C4_UnauthStartStep =>
            /\ last.out = <<Msg("START", None, "AUTHFAIL", None, None)>>
            /\ last.id = None)
    /\ [][C4_UnauthStartStep' =>
            /\ conns' = conns
            /\ nextId' = nextId
            /\ sent' = sent
            /\ sockets' = sockets]_vars

C4_Witness ==
    /\ C4_UnauthStartStep
    /\ last.out = <<Msg("START", None, "AUTHFAIL", None, None)>>

(***************************************************************************)
(* C5.  A TRAFFIC on a session without a successful CONNECT, with or       *)
(* without an id, gets exactly one reply, with error AUTHFAIL; the handler *)
(* raises no fault and nothing is written to a target socket.              *)
(***************************************************************************)
C5_TrafficBeforeConnect ==
    (last.op = "TRAFFIC" /\ ~last.authed) =>
        /\ Len(last.out) = 1
        /\ last.out[1].error = "AUTHFAIL"
        /\ ~last.fault

(***************************************************************************)
(* C6.  On an authenticated session a TRAFFIC without id is answered NOID, *)
(* one whose id is not in the mapping INVALIDID, one whose entry has no    *)
(* socket CLOSED, each with that single reply; otherwise the bytes are     *)
(* written to the socket of the entry and the one reply follows from the   *)
(* write callback.                                                         *)
(***************************************************************************)
C6_TrafficReplies ==
    (last.op = "TRAFFIC" /\ last.authed) =>
        IF last.id = None
        THEN last.out = <<Msg("TRAFFIC", None, "NOID", None, None)>>
        ELSE IF last.id \notin Range(sockets[last.sess].keys)
        THEN last.out = <<Msg("TRAFFIC", None, "INVALIDID", last.id, None)>>
        ELSE IF ~conns[last.id].socket
        THEN last.out = <<Msg("TRAFFIC", None, "CLOSED", last.id, None)>>
        ELSE /\ last.out = <<>>
             /\ conns[last.id].acks > 0
             /\ written[last.id] # <<>>

(***************************************************************************)
(* C7.  Once the outcome of a dial is known, exactly one of ESTABLISHED    *)
(* and FAILED has been sent for its id, and never more than one; a dial    *)
(* that did not succeed has FAILED with a reason and no mapping entry.     *)
(***************************************************************************)
C7_DialAnswered ==
    \A i \in Dialed :
        /\ StatusCount(i, "ESTABLISHED") + StatusCount(i, "FAILED") <= 1
        /\ (conns[i].state # "dialing" \/ conns[i].promise # "pending") =>
              StatusCount(i, "ESTABLISHED") + StatusCount(i, "FAILED") = 1
        /\ conns[i].state = "refused" =>
              /\ StatusCount(i, "FAILED") = 1
              /\ i \notin Range(sockets[conns[i].sess].keys)

(***************************************************************************)
(* C8.  When the WebSocket of a session has closed and its close handler   *)
(* is over, no target socket of the session is open and the session is no  *)
(* longer in the registry.                                                 *)
(***************************************************************************)
C8_TornDown(s) == ~crashed /\ ws[s] = "closed" /\ td[s].state \in {"done", "aborted"}

C8_NothingOutlivesSession ==
    \A s \in Sessions :
        C8_TornDown(s) =>
            /\ \A i \in Dialed : conns[i].sess = s => conns[i].state # "open"
            /\ ~sockets[s].defined

\* The part of C8 about target sockets alone.
C8_NoOpenSocketAfterTeardown ==
    \A s \in Sessions :
        C8_TornDown(s) =>
            \A i \in Dialed : conns[i].sess = s => conns[i].state # "open"

(***************************************************************************)
(* The client (client.ts).  Every listener runs to its end, or to its      *)
(* first await that has to wait, in one step; the continuations that       *)
(* follow the release of the lock run before the next event, as the        *)
(* promise jobs of one turn of the event loop do.                          *)
(***************************************************************************)
ClientInit ==
    /\ SrvInit({})
    /\ credentials = NoTable
    /\ AclIdle
    /\ CliInit

\* A lock that never makes a caller wait.
LockNeverHeld == TRUE

\* lock.acquire() returns at once: nobody holds the lock (client.ts:179).
LockFree == lockHolder = NoTask

\* The reply the relay, being in `phase` on connection w, owes to a TRAFFIC
\* with `id` (server.ts:268-308).
TrafficReply(phase, w, id) ==
    IF phase \in {"idle", "gotConnect"} THEN "AUTHFAIL"
    ELSE IF id = "" THEN "NOID"
    ELSE IF phase = "established" /\ id = IdNames[w] THEN "ACK"
    ELSE "INVALIDID"

\* The tasks sending in the reverse of the order they took the lock in.
TrafficOfNewestFirst(tn, tasks) ==
    IF wsConnection = 0 THEN <<>>
    ELSE [k \in 1..Len(tasks) |->
            [w |-> wsConnection, id |-> connectionId,
             data |-> tasks[Len(tasks) + 1 - k].data,
             from |-> tasks[Len(tasks) + 1 - k].from,
             state |-> tn[wsConnection].state,
             est |-> tn[wsConnection].relay = "established",
             seen |-> narrivals]]

\* wsConnection && sendJSON(wsConnection, log, {type: 'TRAFFIC', ...}) for
\* every task of `tasks`, in the order the lock let them through
\* (client.ts:179-189), the connections being as in `tn`.  `state` and `est` tell what the connection was
\* when the body was handed over, `seen` how many chunks had arrived before
\* the listener that sends it ran: a chunk that waited has data <= seen.
TrafficOf(tn, tasks) ==
    IF wsConnection = 0 THEN <<>>
    ELSE [k \in 1..Len(tasks) |->
            [w |-> wsConnection, id |-> connectionId, data |-> tasks[k].data,
             from |-> tasks[k].from, state |-> tn[wsConnection].state,
             est |-> tn[wsConnection].relay = "established",
             seen |-> narrivals]]

\* The tunnel after `tasks` sent their TRAFFIC: the relay owes a reply to
\* each one that reached it, and wrote to the target the payload of each
\* one that passed the tests of server.ts:269-296 (server.ts:298).
TunnelAfter(tn, tasks) ==
    IF wsConnection = 0 THEN tn
    ELSE LET w == wsConnection
             sentOn == [tn EXCEPT ![w].log =
                          @ \o [k \in 1..Len(tasks) |-> "TRAFFIC"]]
             verdict == TrafficReply(tn[w].relay, w, connectionId)
         IN  IF tn[w].state # "open" THEN sentOn
             ELSE [sentOn EXCEPT
                     ![w].pend = @ \o [k \in 1..Len(tasks) |-> verdict],
                     ![w].wrote = IF verdict = "ACK"
                                  THEN @ \o [k \in 1..Len(tasks) |->
                                               TrafficOf(tn, tasks)[k].data]
                                  ELSE @]

\* setupWsClient() and client.connect() (client.ts:14-16, 78-80).
Opened(tn) == [tn EXCEPT ![nws + 1] = [NoTunnel EXCEPT !.state = "connecting"]]

(***************************************************************************)
\* A loop that takes the newest buffer first.
FlushedNewestFirst(bufs) == [k \in 1..Len(bufs) |-> bufs[Len(bufs) + 1 - k]]

\* The buffers in the order the loop of client.ts:202-206 writes them:
\* buffers.shift() takes the oldest first.
Flushed(bufs) == bufs

(***************************************************************************)
(* 'connection' of localServer: the listener of createServer attaches the  *)
(* 'data' and 'close' listeners to the socket (client.ts:177-196), then    *)
(* the listener of client.ts:198-210 attaches the socket or ends it.       *)
(***************************************************************************)
LocalConnect ==
    /\ ~exited
    /\ listening
    /\ nlocals < MaxLocals
    /\ nlocals' = nlocals + 1
    /\ IF client = 0
       THEN /\ client' = nlocals + 1
            /\ locals' = [locals EXCEPT ![nlocals + 1] =
                            [NoLocal EXCEPT !.state = "open",
                                            !.got = Flushed(buffers),
                                            !.flushed = Len(buffers)]]
            /\ buffers' = <<>>
       ELSE /\ locals' = [locals EXCEPT ![nlocals + 1] =
                            [NoLocal EXCEPT !.state = "ended", !.rejected = TRUE,
                                            !.attachedThen = client]]
            /\ UNCHANGED <<client, buffers>>
    /\ UNCHANGED <<connectionId, wsConnection, isConnected, lockHolder, lockQueue,
                   exited, listening, tunnel, traffic, nws, narrivals,
                   opensSinceClose, srvVars, aclVars>>

(***************************************************************************)
(* 'data' of a local socket (client.ts:178-190).  The chunk is numbered by *)
(* its arrival.                                                            *)
(***************************************************************************)
LocalData(j) ==
    /\ ~exited
    /\ locals[j].state \in {"open", "ended"}
    /\ narrivals < MaxChunks
    /\ narrivals' = narrivals + 1
    /\ IF ~LockFree
       THEN /\ lockQueue' = Append(lockQueue, Task(j, narrivals + 1, 0))
            /\ UNCHANGED <<lockHolder, tunnel, traffic, nws, opensSinceClose>>
       ELSE IF ~isConnected
       THEN /\ nws < MaxWs
            /\ lockHolder' = Task(j, narrivals + 1, nws + 1)
            /\ tunnel' = Opened(tunnel)
            /\ nws' = nws + 1
            /\ opensSinceClose' = opensSinceClose + 1
            /\ UNCHANGED <<lockQueue, traffic>>
       ELSE /\ traffic' = traffic \o TrafficOf(tunnel, <<Task(j, narrivals + 1, 0)>>)
            /\ tunnel' = TunnelAfter(tunnel, <<Task(j, narrivals + 1, 0)>>)
            /\ UNCHANGED <<lockHolder, lockQueue, nws, opensSinceClose>>
    /\ UNCHANGED <<connectionId, wsConnection, isConnected, buffers, client, exited,
                   listening, locals, nlocals, srvVars, aclVars>>

\* 'close' of a local socket (client.ts:192-195).
LocalClose(j) ==
    /\ ~exited
    /\ locals[j].state \in {"open", "ended"}
    /\ locals' = [locals EXCEPT ![j].state = "closed"]
    /\ tunnel' = IF wsConnection # 0 /\ tunnel[wsConnection].state = "open"
                 THEN [tunnel EXCEPT ![wsConnection].state = "closing"]
                 ELSE tunnel
    /\ client' = 0
    /\ UNCHANGED <<connectionId, wsConnection, isConnected, buffers, lockHolder,
                   lockQueue, exited, listening, traffic, nws, nlocals, narrivals,
                   opensSinceClose, srvVars, aclVars>>

(***************************************************************************)
(* The WebSocket client (client.ts:82-172).                                *)
(***************************************************************************)
\* 'connect' (client.ts:86-91): CONNECT is sent and reaches the relay.
WsConnect(w) ==
    /\ ~exited
    /\ tunnel[w].state = "connecting"
    /\ isConnected' = TRUE
    /\ wsConnection' = w
    /\ tunnel' = [tunnel EXCEPT ![w].state = "open", ![w].relay = "gotConnect",
                                ![w].connects = @ + 1,
                                ![w].log = Append(@, "CONNECT")]
    /\ UNCHANGED <<connectionId, buffers, client, lockHolder, lockQueue, exited,
                   listening, locals, traffic, nws, nlocals, narrivals,
                   opensSinceClose, srvVars, aclVars>>

\* 'connectFailed' (client.ts:82-84): panic.
WsConnectFailed(w) ==
    /\ ~exited
    /\ tunnel[w].state = "connecting"
    /\ exited' = TRUE
    /\ listening' = FALSE
    /\ tunnel' = [tunnel EXCEPT ![w].state = "closed"]
    /\ UNCHANGED <<connectionId, wsConnection, isConnected, buffers, client,
                   lockHolder, lockQueue, locals, traffic, nws, nlocals, narrivals,
                   opensSinceClose, srvVars, aclVars>>

\* 'close' of a connection (client.ts:167-171).
WsCloseEvent(w) ==
    /\ ~exited
    /\ tunnel[w].state \in {"open", "closing"}
    /\ tunnel' = [tunnel EXCEPT ![w].state = "closed"]
    /\ isConnected' = FALSE
    /\ opensSinceClose' = 0
    /\ UNCHANGED <<connectionId, wsConnection, buffers, client, lockHolder,
                   lockQueue, exited, listening, locals, traffic, nws, nlocals,
                   narrivals, srvVars, aclVars>>

(***************************************************************************)
(* What the relay may send next on connection w (server.ts:164-308): the   *)
(* reply to CONNECT, to START, the outcome of the dial, a chunk of the     *)
(* target, CLOSED, or the reply to the oldest TRAFFIC.                     *)
(***************************************************************************)
RelayOffers(w) ==
    (IF tunnel[w].relay = "gotConnect"
     THEN {Msg("CONNECT", None, None, None, None),
           Msg("CONNECT", None, "AUTHFAIL", None, None)}
     ELSE IF tunnel[w].relay = "gotStart"
     THEN {Msg("START", "CONNECTING", None, IdNames[w], None),
           Msg("START", None, "FORBIDDEN", None, None)}
     ELSE IF tunnel[w].relay = "dialing"
     THEN {Msg(None, "ESTABLISHED", None, IdNames[w], None),
           Msg(None, "FAILED", "TIMEOUT", IdNames[w], None)}
     ELSE IF tunnel[w].relay = "established"
     THEN {Msg(None, "CLOSED", None, IdNames[w], None)}
          \cup (IF narrivals < MaxChunks
                THEN {Msg(None, None, None, IdNames[w], Chunk(narrivals + 1))}
                ELSE {})
     ELSE {})
    \cup (IF tunnel[w].pend = <<>> THEN {}
          ELSE IF Head(tunnel[w].pend) = "ACK"
          THEN {Msg("TRAFFIC", None, None, connectionId, None),
                Msg("TRAFFIC", None, "WRITEERROR", connectionId, None)}
          ELSE {Msg("TRAFFIC", None, Head(tunnel[w].pend), None, None)})

\* The relay's side of connection w once it sent m and received what the
\* listener sent back.
RelayAfter(w, m, sentStart) ==
    [tunnel[w] EXCEPT
        !.relay = IF m.command = "CONNECT" /\ m.error = None
                  THEN (IF sentStart THEN "gotStart" ELSE "authed")
                  ELSE IF m.command = "START" /\ m.error = None THEN "dialing"
                  ELSE IF m.status = "ESTABLISHED" THEN "established"
                  ELSE IF m.status \in {"CLOSED", "FAILED"} \/ m.error # None
                  THEN (IF m.command = "TRAFFIC" THEN @ ELSE "over")
                  ELSE @,
        !.pend = IF m.command = "TRAFFIC" THEN Tail(@) ELSE @,
        !.starts = IF sentStart THEN @ + 1 ELSE @,
        !.log = IF sentStart THEN Append(@, "START") ELSE @,
        !.gave = IF m.data # None THEN Append(@, m.data) ELSE @,
        !.heard = Append(@, m)]

\* A listener that goes on after a status CLOSED or FAILED.
FatalErrorsOnly(m) ==
    m.command \in {"CONNECT", "START", "TRAFFIC"} /\ m.error # None

\* panic() is reached in the listener of client.ts:93-165.
Fatal(m) ==
    \/ m.command \in {"CONNECT", "START", "TRAFFIC"} /\ m.error # None
    \/ m.connection # None /\ m.status \in {"CLOSED", "FAILED"}

\* 'message' of connection w (client.ts:93-165), then the listener of
\* startConnection (client.ts:18-23), whose res() lets the holder of the
\* lock go on: it releases the lock and sends its TRAFFIC, run() sets
\* isConnected (client.ts:218-220), and the waiting tasks follow in order.
WsMessage(w, m) ==
    /\ ~exited
    /\ tunnel[w].state = "open"
    /\ m \in RelayOffers(w)
    /\ narrivals' = IF m.data # None THEN narrivals + 1 ELSE narrivals
    /\ IF Fatal(m)
       THEN /\ exited' = TRUE
            /\ listening' = FALSE
            /\ tunnel' = [tunnel EXCEPT ![w] =
                            [RelayAfter(w, m, FALSE) EXCEPT
                               !.state = IF m.error # None THEN "closing" ELSE @]]
            /\ UNCHANGED <<connectionId, isConnected, buffers, lockHolder,
                           lockQueue, locals, traffic, nws, opensSinceClose>>
       ELSE LET sentStart == m.command = "CONNECT"
                resumes == /\ m.status = "ESTABLISHED"
                           /\ lockHolder # NoTask
                           /\ lockHolder.waitOn = w
                connected == IF resumes /\ lockHolder.from = 0 THEN TRUE
                             ELSE isConnected
                mine == IF lockHolder.from = 0 THEN <<>> ELSE <<lockHolder>>
                tn == [tunnel EXCEPT ![w] = RelayAfter(w, m, sentStart)]
            IN  /\ connectionId' = IF m.command = "START" THEN m.connection
                                   ELSE connectionId
                /\ isConnected' = connected
                /\ IF m.connection # None /\ m.status = None /\ m.data # None
                   THEN IF client # 0
                        THEN /\ locals' = [locals EXCEPT ![client].got =
                                             Append(@, m.data)]
                             /\ buffers' = buffers
                        ELSE /\ buffers' = Append(buffers, m.data)
                             /\ locals' = locals
                   ELSE UNCHANGED <<buffers, locals>>
                /\ IF ~resumes
                   THEN /\ tunnel' = tn
                        /\ UNCHANGED <<lockHolder, lockQueue, traffic, nws,
                                       opensSinceClose>>
                   ELSE IF connected
                   THEN /\ traffic' = traffic \o TrafficOf(tn, mine \o lockQueue)
                        /\ tunnel' = TunnelAfter(tn, mine \o lockQueue)
                        /\ lockHolder' = NoTask
                        /\ lockQueue' = <<>>
                        /\ UNCHANGED <<nws, opensSinceClose>>
                   ELSE /\ traffic' = traffic \o TrafficOf(tn, mine)
                        /\ IF lockQueue = <<>>
                           THEN /\ tunnel' = TunnelAfter(tn, mine)
                                /\ lockHolder' = NoTask
                                /\ UNCHANGED <<lockQueue, nws, opensSinceClose>>
                           ELSE /\ nws < MaxWs
                                /\ tunnel' = Opened(TunnelAfter(tn, mine))
                                /\ lockHolder' = [Head(lockQueue) EXCEPT
                                                    !.waitOn = nws + 1]
                                /\ lockQueue' = Tail(lockQueue)
                                /\ nws' = nws + 1
                                /\ opensSinceClose' = opensSinceClose + 1
                /\ UNCHANGED <<exited, listening>>
    /\ UNCHANGED <<wsConnection, client, nlocals, srvVars, aclVars>>

\* A frame that is no JSON text reaches the listener of connection w
\* (client.ts:93-95): a binary frame fails the test of isUTF8Message and is
\* dropped; for a text frame JSON.parse throws out of the listener, and the
\* uncaught exception ends the process.
WsBadFrame(w, binary) ==
    /\ ~exited
    /\ tunnel[w].state = "open"
    /\ narrivals < MaxChunks
    /\ narrivals' = narrivals + 1
    /\ exited' = ~binary
    /\ listening' = binary
    /\ UNCHANGED <<connectionId, wsConnection, isConnected, buffers, client,
                   lockHolder, lockQueue, tunnel, locals, traffic, nws, nlocals,
                   opensSinceClose, srvVars, aclVars>>

ClientNext ==
    \/ LocalConnect
    \/ \E j \in LocalIds : LocalData(j)
    \/ \E j \in LocalIds : LocalClose(j)
    \/ \E w \in WsIds : WsConnect(w)
    \/ \E w \in WsIds : WsConnectFailed(w)
    \/ \E w \in WsIds : WsCloseEvent(w)
    \/ \E w \in WsIds : \E m \in RelayOffers(w) : WsMessage(w, m)
    \/ \E w \in WsIds, binary \in BOOLEAN : WsBadFrame(w, binary)

ClientSpec == ClientInit /\ [][ClientNext]_vars

\* What the environment owes the client: a connection that was closed
\* delivers its 'close' event, a connection attempt ends in 'connect' or
\* 'connectFailed', and the relay answers CONNECT and START and reports the
\* outcome of its dial.  Nothing obliges a local socket to connect, to send
\* or to close, nor the relay or the target to close an open connection.
ClosingCloses == \E w \in WsIds : tunnel[w].state = "closing" /\ WsCloseEvent(w)

AttemptEnds == \E w \in WsIds : WsConnect(w) \/ WsConnectFailed(w)

HandshakeGoesOn ==
    \E w \in WsIds : \E m \in RelayOffers(w) :
        /\ m.command \in {"CONNECT", "START"} \/ m.status \in {"ESTABLISHED", "FAILED"}
        /\ WsMessage(w, m)

ClientLiveSpec ==
    /\ ClientInit
    /\ [][ClientNext]_vars
    /\ WF_vars(ClosingCloses)
    /\ WF_vars(AttemptEnds)
    /\ WF_vars(HandshakeGoesOn)

(***************************************************************************)
(* C9.  A local connection that arrives while a client is attached is      *)
(* rejected without disturbing the first: nothing the rejected socket      *)
(* sends is forwarded as TRAFFIC, and once it has closed the first client  *)
(* is still the attached one.                                              *)
(***************************************************************************)
C9_RejectedLeavesFirst ==
    \A j \in LocalIds :
        locals[j].rejected =>
            /\ \A k \in 1..Len(traffic) : traffic[k].from # j
            /\ (locals[j].state = "closed"
                /\ locals[locals[j].attachedThen].state = "open") =>
                   client = locals[j].attachedThen

\* The part of C9 about the attached client alone.
C9_FirstStaysAttached ==
    \A j \in LocalIds :
        (locals[j].rejected /\ locals[j].state = "closed"
         /\ locals[locals[j].attachedThen].state = "open") =>
            client = locals[j].attachedThen

\* The part of C9 about the chunks of the rejected socket alone.
C9_RejectedNotForwarded ==
    \A j \in LocalIds :
        locals[j].rejected => \A k \in 1..Len(traffic) : traffic[k].from # j

(***************************************************************************)
(* C10.  Between two 'close' events of the tunnel the client opens at most *)
(* one WebSocket connection, however many chunks arrive while it is not    *)
(* connected (the start-up connection of run() included): at most one      *)
(* connection is connecting or open at a time, a chunk that holds the lock *)
(* waits for the connection opened last, and on every connection CONNECT   *)
(* is sent exactly once when it opens and START exactly once when the      *)
(* CONNECT reply without error arrives.                                    *)
(***************************************************************************)
C10_OneConnectionPerEpisode ==
    /\ opensSinceClose <= 1
    /\ Cardinality({w \in WsIds : tunnel[w].state \in {"connecting", "open"}}) <= 1
    /\ (lockHolder # NoTask /\ lockHolder.from # 0) => lockHolder.waitOn = nws
    /\ \A w \in WsIds :
          /\ tunnel[w].connects <= 1
          /\ tunnel[w].starts <= 1
          /\ tunnel[w].state \in {"open", "closing"} => tunnel[w].connects = 1
          /\ tunnel[w].relay \in {"gotStart", "dialing", "established"} =>
                tunnel[w].starts = 1
          /\ tunnel[w].relay \in {"idle", "gotConnect"} => tunnel[w].starts = 0

\* Two chunks arrived while the tunnel was not connected; one connection
\* was opened for them and both were forwarded on it.
C10_Witness ==
    /\ nws = 2
    /\ Len(traffic) = 2
    /\ traffic[1].w = 2 /\ traffic[2].w = 2
    /\ traffic[1].state = "open" /\ traffic[2].state = "open"
    /\ tunnel[2].connects = 1
    /\ tunnel[2].starts = 1

(***************************************************************************)
(* C11.  Byte order is kept in both directions: the payloads the relay     *)
(* hands to the target socket of a connection are in the order the chunks  *)
(* arrived from the local socket, also those that waited for the lock      *)
(* while a connection was being set up, and the payloads written to a      *)
(* local socket are in the order the target produced them, also those that *)
(* waited in `buffers`.                                                    *)
(***************************************************************************)
Ascending(q) == \A k \in 1..(Len(q) - 1) : q[k] < q[k + 1]

Ords(q) == [k \in 1..Len(q) |-> Ord(q[k])]

C11_ByteOrderKept ==
    /\ Ascending([k \in 1..Len(traffic) |-> traffic[k].data])
    /\ \A w \in WsIds : Ascending(tunnel[w].wrote)
    /\ \A j \in LocalIds : Ascending(Ords(locals[j].got))
    /\ Ascending(Ords(buffers))

\* Two chunks went to the target over one connection, the second after it
\* had waited for the lock.
C11_Witness ==
    \E w \in WsIds :
        /\ Len(tunnel[w].wrote) = 2
        /\ \E k \in 1..Len(traffic) :
              /\ traffic[k].w = w
              /\ traffic[k].data = tunnel[w].wrote[2]
              /\ traffic[k].data <= traffic[k].seen

(***************************************************************************)
(* C12.  A local socket that attaches is written every payload that waits  *)
(* in `buffers`, oldest first, before any payload received later, and      *)
(* `buffers` is empty afterwards: the payloads written to the local        *)
(* sockets, in the order the sockets were accepted, followed by those that *)
(* still wait, are the payloads the relay sent, in the order it sent them, *)
(* and nothing waits while a socket is attached.                           *)
(***************************************************************************)
RECURSIVE GotUpTo(_)
GotUpTo(j) == IF j = 0 THEN <<>> ELSE GotUpTo(j - 1) \o locals[j].got

RECURSIVE GaveUpTo(_)
GaveUpTo(w) == IF w = 0 THEN <<>> ELSE GaveUpTo(w - 1) \o tunnel[w].gave

C12_BuffersFlushedInOrder ==
    /\ client # 0 => buffers = <<>>
    /\ GotUpTo(MaxLocals) \o buffers = GaveUpTo(MaxWs)
    /\ \A j \in LocalIds : locals[j].flushed <= Len(locals[j].got)

\* Two payloads waited when a local socket attached, and were written to it.
C12_Witness ==
    \E j \in LocalIds :
        /\ locals[j].flushed = 2
        /\ Len(locals[j].got) = 2
        /\ buffers = <<>>
        /\ client = j

(***************************************************************************)
(* C13.  Payloads of different logical connections are never mixed: a      *)
(* TRAFFIC with id X on session S writes its payload to the socket         *)
(* registered under X in S and to no other; a chunk read from that socket  *)
(* is sent on the WebSocket of S, tagged X; a TRAFFIC on S that names an   *)
(* id registered in another session is answered INVALIDID and writes       *)
(* nothing.                                                                *)
(***************************************************************************)
C13_ForeignId ==
    /\ last.op = "TRAFFIC"
    /\ last.authed
    /\ last.id \in Ids
    /\ \E t \in Sessions \ {last.sess} : last.id \in Range(sockets[t].keys)

C13_TrafficStep ==
    last'.op = "TRAFFIC" =>
        /\ \A i \in Ids :
              written'[i] # written[i] =>
                  /\ i = last'.id
                  /\ conns[i].sess = last'.sess
                  /\ i \in Range(sockets[last'.sess].keys)
                  /\ written'[i] = Append(written[i], Chunk(nmsgs'))
        /\ C13_ForeignId' => written' = written

C13_Tagged ==
    /\ \A i \in Ids : \A k \in 1..Len(sent[i]) :
          sent[i][k].msg.data # None =>
              /\ sent[i][k].to = conns[i].sess
              /\ sent[i][k].msg.connection = i
    /\ last.op = "TARGETDATA" =>
          /\ Len(last.out) = 1
          /\ last.out[1].connection = last.id
          /\ last.sess = conns[last.id].sess
    /\ C13_ForeignId =>
          last.out = <<Msg("TRAFFIC", None, "INVALIDID", last.id, None)>>

C13_NoMixing == []C13_Tagged /\ [][C13_TrafficStep]_vars

\* Session s2 named the id registered in the mapping of s1.
C13_Witness ==
    /\ C13_ForeignId
    /\ last.sess = "s2"
    /\ last.out = <<Msg("TRAFFIC", None, "INVALIDID", last.id, None)>>

(***************************************************************************)
(* C14.  Nothing that happens inside one session ends the relay process or *)
(* raises a fault nobody handles, and a step of one session leaves the     *)
(* mapping, the passphrase and the replies of the other sessions as they   *)
(* were.                                                                   *)
(***************************************************************************)
SentTo(t) ==
    [i \in Ids |-> SelectSeq(sent[i], LAMBDA e : e.to = t)]

C14_OthersUntouched ==
    \A t \in Sessions \ {last'.sess} :
        /\ sockets'[t] = sockets[t]
        /\ passphrase'[t] = passphrase[t]
        /\ SentTo(t)' = SentTo(t)

C14_FailuresContained ==
    [](~crashed /\ faults = 0) /\ [][C14_OthersUntouched]_vars

(***************************************************************************)
(* C15.  A TRAFFIC reply with an error other than CLOSED does not tear the *)
(* tunnel down: the listener that handles it leaves the WebSocket          *)
(* connection, the local listener and the process as they were.            *)
(***************************************************************************)
\* The listener of connection w ran in this step; Heard(w) is its body.
Hears(w) == Len(tunnel'[w].heard) = Len(tunnel[w].heard) + 1

Heard(w) == tunnel'[w].heard[Len(tunnel'[w].heard)]

C15_Step ==
    \A w \in WsIds :
        (/\ Hears(w)
         /\ Heard(w).command = "TRAFFIC"
         /\ Heard(w).error \notin {None, "CLOSED"}) =>
            /\ exited' = exited
            /\ listening' = listening
            /\ tunnel'[w].state = tunnel[w].state

C15_TrafficErrorNotFatal == [][C15_Step]_vars

(***************************************************************************)
(* C16.  A binary frame, and a text frame that is not JSON, are ignored by *)
(* the relay: nothing is sent, nothing of the sessions changes, no fault   *)
(* is raised and the process goes on.                                      *)
(***************************************************************************)
C16_BadFrameStep ==
    last'.op \in {"BINARY", "BADJSON"} =>
        /\ sent' = sent
        /\ sockets' = sockets
        /\ passphrase' = passphrase
        /\ conns' = conns
        /\ written' = written
        /\ crashed' = crashed
        /\ faults' = faults

C16_BadFramesIgnored ==
    /\ [](last.op \in {"BINARY", "BADJSON"} => last.out = <<>> /\ ~last.fault)
    /\ [][C16_BadFrameStep]_vars

(***************************************************************************)
(* C17.  The messages about one id come in order: first {command: START,   *)
(* status: CONNECTING}, then at most one of ESTABLISHED and FAILED, data   *)
(* only after ESTABLISHED and only while the id is registered in the       *)
(* mapping of its session, at most one CLOSED, and nothing after CLOSED or *)
(* FAILED.  The replies to TRAFFIC frames are left aside.                  *)
(***************************************************************************)
Life(i) == SelectSeq(sent[i], LAMBDA e : e.msg.command # "TRAFFIC")

C17_Ordered(L) ==
    /\ L # <<>> => L[1].msg.command = "START" /\ L[1].msg.status = "CONNECTING"
    /\ \A k \in 2..Len(L) :
          /\ L[k].msg.command = None
          /\ k = 2 => L[k].msg.status \in {"ESTABLISHED", "FAILED"}
          /\ k > 2 => /\ L[2].msg.status = "ESTABLISHED"
                      /\ \/ L[k].msg.data # None /\ L[k].msg.status = None
                         \/ L[k].msg.status = "CLOSED" /\ k = Len(L)

C17_MessagesInOrder ==
    /\ \A i \in Ids : C17_Ordered(Life(i))
    /\ last.op = "TARGETDATA" => last.id \in Range(sockets[last.sess].keys)

\* The order alone, whatever the mapping holds.
C17_OrderAlone == \A i \in Ids : C17_Ordered(Life(i))

(***************************************************************************)
(* C18.  When the target socket of a registered id closes, the entry is    *)
(* removed, {connection: id, status: CLOSED} is sent once and the          *)
(* WebSocket connection is closed; once the close handler of the session   *)
(* is over, no other id still registered in it has an open socket.         *)
(***************************************************************************)
C18_TargetClosed(s) ==
    \E i \in Ids : conns[i].sess = s /\ conns[i].state = "closed" /\ conns[i].wired

C18_TargetCloseClosesAll ==
    /\ last.op = "TARGETCLOSE" =>
          /\ last.out = <<Msg(None, "CLOSED", None, last.id, None)>>
          /\ StatusCount(last.id, "CLOSED") = 1
          /\ last.id \notin Range(sockets[last.sess].keys)
          /\ ws[last.sess] # "open"
    /\ \A s \in Sessions :
          (C18_TargetClosed(s) /\ td[s].state \in {"done", "aborted"}) =>
              \A i \in Range(sockets[s].keys) : conns[i].state # "open"

\* The part of C18 about the closed id alone.
C18_ClosedIdAlone ==
    last.op = "TARGETCLOSE" =>
        /\ last.out = <<Msg(None, "CLOSED", None, last.id, None)>>
        /\ StatusCount(last.id, "CLOSED") = 1
        /\ last.id \notin Range(sockets[last.sess].keys)
        /\ ws[last.sess] # "open"

(***************************************************************************)
(* C19.  A chunk of an attached local socket is forwarded as one TRAFFIC   *)
(* body, on a WebSocket connection that is open and has had ESTABLISHED,   *)
(* with the id of the START reply of that connection; a chunk that finds   *)
(* the tunnel closed, also after a local socket closed it, goes out on a   *)
(* new connection.                                                         *)
(***************************************************************************)
C19_ForwardedOnLiveTunnel ==
    /\ \A k \in 1..Len(traffic) :
          ~locals[traffic[k].from].rejected =>
              /\ traffic[k].state = "open"
              /\ traffic[k].est
              /\ traffic[k].id = IdNames[traffic[k].w]
    /\ \A k, l \in 1..Len(traffic) : traffic[k].data = traffic[l].data => k = l

(***************************************************************************)
(* C20.  On a WebSocket connection it opened the client sends CONNECT      *)
(* once, first; START once, and only in answer to a CONNECT reply without  *)
(* error; it takes connectionId only from a START reply without error;     *)
(* after a CONNECT or START reply with an error, or a status CLOSED or     *)
(* FAILED, it sends nothing more, the process is over and the local        *)
(* listener is closed.                                                     *)
(***************************************************************************)
C20_Count(L, x) == Cardinality({k \in 1..Len(L) : L[k] = x})

C20_Ends(m) ==
    \/ m.command \in {"CONNECT", "START"} /\ m.error # None
    \/ m.status \in {"CLOSED", "FAILED"}

C20_OkReplies(w, c) ==
    Cardinality({k \in 1..Len(tunnel[w].heard) :
                    /\ tunnel[w].heard[k].command = c
                    /\ tunnel[w].heard[k].error = None})

C20_Handshake ==
    /\ \A w \in WsIds :
          /\ tunnel[w].state \in {"open", "closing", "closed"} /\ tunnel[w].connects > 0
                => /\ tunnel[w].log # <<>>
                   /\ tunnel[w].log[1] = "CONNECT"
          /\ tunnel[w].connects = 0 => tunnel[w].log = <<>>
          /\ C20_Count(tunnel[w].log, "CONNECT") = tunnel[w].connects
          /\ tunnel[w].connects <= 1
          /\ C20_Count(tunnel[w].log, "START") = C20_OkReplies(w, "CONNECT")
          /\ C20_Count(tunnel[w].log, "START") <= 1
          /\ \A k \in 1..Len(tunnel[w].heard) :
                C20_Ends(tunnel[w].heard[k]) =>
                    /\ k = Len(tunnel[w].heard)
                    /\ exited
                    /\ ~listening
    /\ connectionId # "" =>
          \E w \in WsIds : \E k \in 1..Len(tunnel[w].heard) :
              /\ tunnel[w].heard[k].command = "START"
              /\ tunnel[w].heard[k].error = None
              /\ tunnel[w].heard[k].connection = connectionId

C20_Step ==
    /\ \A w \in WsIds :
          /\ tunnel'[w].log # tunnel[w].log /\ Len(tunnel'[w].log) > 0
             /\ tunnel'[w].log[Len(tunnel'[w].log)] = "START"
                => /\ Len(tunnel'[w].heard) = Len(tunnel[w].heard) + 1
                   /\ tunnel'[w].heard[Len(tunnel'[w].heard)].command = "CONNECT"
                   /\ tunnel'[w].heard[Len(tunnel'[w].heard)].error = None
          /\ (Len(tunnel'[w].heard) > Len(tunnel[w].heard)
              /\ C20_Ends(tunnel'[w].heard[Len(tunnel'[w].heard)]))
                => /\ \A v \in WsIds : tunnel'[v].log = tunnel[v].log
                   /\ traffic' = traffic
                   /\ exited' /\ ~listening'
    /\ connectionId' # connectionId =>
          \E w \in WsIds :
              /\ Len(tunnel'[w].heard) = Len(tunnel[w].heard) + 1
              /\ tunnel'[w].heard[Len(tunnel'[w].heard)].command = "START"
              /\ tunnel'[w].heard[Len(tunnel'[w].heard)].error = None
              /\ tunnel'[w].heard[Len(tunnel'[w].heard)].connection = connectionId'
    /\ exited => /\ \A v \in WsIds : tunnel'[v].log = tunnel[v].log
                 /\ traffic' = traffic

C20_HandshakeThenStop == []C20_Handshake /\ [][C20_Step]_vars

\* The handshake went through, a chunk was forwarded, and CLOSED ended it.
C20_Witness ==
    /\ exited /\ ~listening
    /\ \E w \in WsIds :
          /\ tunnel[w].log = <<"CONNECT", "START", "TRAFFIC">>
          /\ connectionId = IdNames[w]
          /\ tunnel[w].heard # <<>>
          /\ tunnel[w].heard[Len(tunnel[w].heard)].status = "CLOSED"

(***************************************************************************)
(* C21.  Once the attached local socket has closed, the WebSocket          *)
(* connection of the client is closed in the end, `client` no longer       *)
(* refers to the socket and isConnected becomes false.  (What the relay    *)
(* does with the target sockets of a session whose WebSocket connection    *)
(* closed is the subject of C8.)  The formula asks no more than this while *)
(* no other local socket is attached and the process is running.           *)
(***************************************************************************)
C21_LocalGone ==
    /\ client = 0
    /\ \E j \in LocalIds : locals[j].state = "closed" /\ ~locals[j].rejected

C21_Live(w) == tunnel[w].state \in {"connecting", "open", "closing"}

C21_Excused == exited \/ client # 0

C21_RefCleared == \A j \in LocalIds : locals[j].state = "closed" => client # j

C21_LocalCloseCancelsTunnel ==
    /\ []C21_RefCleared
    /\ \A w \in WsIds :
          (C21_LocalGone /\ C21_Live(w)) ~> (~C21_Live(w) \/ C21_Excused)
    /\ (C21_LocalGone /\ isConnected) ~> (~isConnected \/ C21_Excused)

(***************************************************************************)
(* C22.  The passphrase of a session is set at most once: once a CONNECT   *)
(* has stored one, no later CONNECT on the session replaces it, so that    *)
(* every later START is judged by the credential of the first.             *)
(***************************************************************************)
C22_Kept == \A s \in Sessions : passphrase[s] # None => passphrase'[s] = passphrase[s]

C22_PassphraseSetOnce == [][C22_Kept]_vars

(***************************************************************************)
(* C23.  A logical connection whose target socket is open, from the        *)
(* ESTABLISHED body until the socket closes, is found in the mapping of    *)
(* its session under its id; a further CONNECT on the session does not     *)
(* remove it.                                                              *)
(***************************************************************************)
C23_OpenIsRegistered ==
    \A i \in Ids :
        (conns[i].state = "open" /\ conns[i].wired) =>
            /\ sockets[conns[i].sess].defined
            /\ i \in Range(sockets[conns[i].sess].keys)

(***************************************************************************)
(* C24.  A payload the client writes to a local socket, at once or from    *)
(* `buffers`, comes from the logical connection the client has at that     *)
(* moment: what an earlier connection left in `buffers` is not written to  *)
(* a local socket that attaches after that connection was closed.          *)
(***************************************************************************)
\* The k-th buffer written to local socket j was sent by the relay on the
\* connection wsConnection refers to, and that connection is not closed.
C24_FromCurrent(j, k) ==
    /\ wsConnection # 0
    /\ tunnel[wsConnection].state \in {"open", "closing"}
    /\ locals[j].got[k] \in Range(tunnel[wsConnection].gave)

C24_WriteStep ==
    \A j \in LocalIds :
        \A k \in (Len(locals[j].got) + 1)..Len(locals'[j].got) :
            C24_FromCurrent(j, k)'

C24_OnlyCurrentPayloads == [][C24_WriteStep]_vars

(***************************************************************************)
(* C25.  Whoever acquires the lock of the client releases it in the end,   *)
(* unless the process is over first; a 'data' listener that waits for the  *)
(* lock does not wait forever, also when the WebSocket connection closes   *)
(* or ESTABLISHED never arrives while connect() holds the lock.  The       *)
(* formula asks nothing once the last connection the model has was opened. *)
(***************************************************************************)
C25_Tasks ==
    {Task(j, n, w) : j \in 0..MaxLocals, n \in 0..MaxChunks, w \in 0..MaxWs}

C25_Excused == exited \/ nws = MaxWs

C25_LockReleased ==
    /\ \A t \in C25_Tasks :
          (lockHolder = t) ~> (lockHolder # t \/ C25_Excused)
    /\ \A t \in C25_Tasks :
          (t \in Range(lockQueue)) ~> (t \notin Range(lockQueue) \/ C25_Excused)

====
